---- MODULE Spec2Model ----
(***************************************************************************)
(* SmtcBridge: the flat C surface over the Windows System Media Transport  *)
(* Controls (src/NativePlugins/SmtcBridge/src/smtc_bridge.cpp).            *)
(*                                                                         *)
(* A public operation is two steps of its calling thread: Enter (the       *)
(* std::lock_guard at the top of the function acquires g_mutex) and the    *)
(* operation's body, which runs to its return with the lock held.  The     *)
(* native objects (MediaPlayer, its transport controls and display         *)
(* updater, the thread's COM apartment) are the variables objs and         *)
(* comInits; every native call that can throw takes its failure as an      *)
(* input of the action.                                                    *)
(***************************************************************************)
EXTENDS Integers, Sequences, FiniteSets, TLC

\* ---------------------------------------------------------------- bounds
\* Initialize calls that run native setup in one behaviour; the MediaPlayer
\* object the n-th of them constructs is object n.
MaxSetups == 2

\* Sessions in one behaviour of the specification of the buttons.
MaxButtonSessions == 1

\* ------------------------------------------------- smtc_bridge.h enums
SMTC_PLAYBACK_CLOSED == 0
SMTC_PLAYBACK_STOPPED == 1
SMTC_PLAYBACK_PLAYING == 2
SMTC_PLAYBACK_PAUSED == 3
SMTC_PLAYBACK_CHANGING == 4

SMTC_BUTTON_PLAY == 0
SMTC_BUTTON_PAUSE == 1
SMTC_BUTTON_STOP == 2
SMTC_BUTTON_RECORD == 3
SMTC_BUTTON_FAST_FORWARD == 4
SMTC_BUTTON_REWIND == 5
SMTC_BUTTON_NEXT == 6
SMTC_BUTTON_PREVIOUS == 7
SMTC_BUTTON_CHANNEL_UP == 8
SMTC_BUTTON_CHANNEL_DOWN == 9

SMTC_MEDIA_UNKNOWN == 0
SMTC_MEDIA_MUSIC == 1
SMTC_MEDIA_VIDEO == 2
SMTC_MEDIA_IMAGE == 3

\* ------------------------------------------------------------ threads
\* The threads of the host application that call the public operations, and
\* the thread on which the OS delivers button presses (a callback running
\* there may call public operations too).
OsThread == "os"
Callers == {"c1", "c2", OsThread}
NoThread == "none"

\* ------------------------------------------------------ native values
\* A null handle ({ nullptr }); a non-null handle is the number of the
\* MediaPlayer object it was obtained from.
NullHandle == 0
Ids == 1..MaxSetups

\* The seven IsXxxEnabled properties of SystemMediaTransportControls the
\* bridge reads and writes.
WiredProps == {"Play", "Pause", "Stop", "Next", "Previous", "FastForward", "Rewind"}

NoThumb == [kind |-> "none", path |-> "", bytes |-> <<>>]
FileThumb(p) == [kind |-> "file", path |-> p, bytes |-> <<>>]
MemThumb(b) == [kind |-> "mem", path |-> "", bytes |-> b]

\* Properties of a freshly obtained display updater.
EmptyMeta == [type |-> "Unknown", title |-> "", artist |-> "", album |-> "", thumb |-> NoThumb]

\* long long and the int64_t count of a TimeSpan: a 64-bit two's complement
\* number, as four 16-bit limbs, the least significant first.
Limb == 65536
LimbCount == 4

\* The 64-bit number of a small integer.
I64(n) ==
    IF n >= 0 THEN <<n % Limb, (n \div Limb) % Limb, 0, 0>>
    ELSE <<(Limb - 1) - ((-n - 1) % Limb), (Limb - 1) - (((-n - 1) \div Limb) % Limb),
           Limb - 1, Limb - 1>>

\* x * k on numbers of Len(x) limbs, the carry out of the last limb lost.
RECURSIVE MulLimbs(_, _, _, _)
MulLimbs(x, k, i, carry) ==
    IF i > Len(x) THEN <<>>
    ELSE LET p == x[i] * k + carry
         IN  <<p % Limb>> \o MulLimbs(x, k, i + 1, p \div Limb)

\* A TimeSpan counts 100 ns ticks.
TicksPerMs == 10000

NoTimeline == [set |-> FALSE, start |-> I64(0), end |-> I64(0), position |-> I64(0),
               minSeek |-> I64(0), maxSeek |-> I64(0)]

\* A MediaPlayer just constructed, with its transport controls and display
\* updater: built-in command handling on, controls disabled, no button
\* enabled, status Closed, no handler registered, nothing staged or shown.
NewObj == [alive |-> TRUE, closed |-> FALSE, autoCmd |-> TRUE, isEnabled |-> FALSE,
           btn |-> [p \in WiredProps |-> FALSE], status |-> "Closed",
           timeline |-> NoTimeline, sinks |-> {},
           staged |-> EmptyMeta, visible |-> EmptyMeta]

\* An object that was never constructed or whose last reference is gone.
DeadObj == [NewObj EXCEPT !.alive = FALSE]

\* const wchar_t* arguments: a null pointer or a string.
NullW == [null |-> TRUE, s |-> ""]
W(s) == [null |-> FALSE, s |-> s]

\* const unsigned char* arguments: a null pointer or a buffer.
NullData == [null |-> TRUE, bytes |-> <<>>]
Data(b) == [null |-> FALSE, bytes |-> b]

VARIABLES
    g_mutex,              \* owner of the std::mutex, NoThread when free
    pc,                   \* per caller: "idle", "in" (inside an operation), "blocked"
    call,                 \* per caller: the operation being (or last) called, with its arguments
    outcome,              \* per caller: how its last call ended
    ret,                  \* per caller: the value its last call returned
    retStr,               \* per caller: the string its last SmtcGetLastError returned
    nativeCalls,          \* per caller: native calls made by its last operation body
    nativeFailed,         \* per caller: whether a native call of that body failed
    g_initialized,
    g_comInitialized,
    g_mediaPlayer,
    g_smtc,
    g_displayUpdater,
    g_lastError,
    g_buttonCallback,
    g_positionCallback,
    g_buttonPressedToken,
    comInits,             \* per caller thread: CoInitializeEx successes not yet balanced by CoUninitialize
    setups,               \* Initialize calls that have run native setup so far
    sessions,             \* Initialize calls that completed the setup so far
    objs,                 \* the native objects, by number
    hpc,                  \* the ButtonPressed handler on the OS thread: "idle", "delivered",
                          \* "tested", "calling", "crashed"
    hEvent,               \* the press being handled: its sender and its native button
    hTested,              \* the value of g_buttonCallback the handler tested
    hCalls,               \* callback invocations made for the press being (or last) handled
    relayed               \* the last callback invocation: the function and its argument

threadVars == <<g_mutex, pc, call, outcome, ret, retStr, nativeCalls, nativeFailed>>
handlerVars == <<hpc, hEvent, hTested, hCalls, relayed>>
handleVars == <<g_mediaPlayer, g_smtc, g_displayUpdater, g_buttonPressedToken>>
callbackVars == <<g_buttonCallback, g_positionCallback>>
initVars == <<g_initialized, sessions>>
globalVars == <<initVars, g_comInitialized, handleVars, g_lastError, callbackVars>>
nativeVars == <<comInits, setups, objs>>
vars == <<threadVars, globalVars, nativeVars, handlerVars>>

NoCall == [op |-> "none"]
NoEvent == [sender |-> 0, button |-> ""]
NoRelay == [callback |-> 0, buttonType |-> -1]

Init ==
    /\ g_mutex = NoThread
    /\ pc = [t \in Callers |-> "idle"]
    /\ call = [t \in Callers |-> NoCall]
    /\ outcome = [t \in Callers |-> "none"]
    /\ ret = [t \in Callers |-> 0]
    /\ retStr = [t \in Callers |-> ""]
    /\ nativeCalls = [t \in Callers |-> 0]
    /\ nativeFailed = [t \in Callers |-> FALSE]
    /\ g_initialized = FALSE
    /\ g_comInitialized = FALSE
    /\ g_mediaPlayer = NullHandle
    /\ g_smtc = NullHandle
    /\ g_displayUpdater = NullHandle
    /\ g_lastError = ""
    /\ g_buttonCallback = 0
    /\ g_positionCallback = 0
    /\ g_buttonPressedToken = 0
    /\ comInits = [t \in Callers |-> 0]
    /\ setups = 0
    /\ sessions = 0
    /\ objs = [i \in Ids |-> DeadObj]
    /\ hpc = "idle"
    /\ hEvent = NoEvent
    /\ hTested = 0
    /\ hCalls = 0
    /\ relayed = NoRelay

\* ------------------------------------------------- entering and leaving

\* std::lock_guard<std::mutex> lock(g_mutex) at the top of every public
\* operation: the caller proceeds only when the mutex is free.
Enter(t, c) ==
    /\ pc[t] = "idle"
    /\ g_mutex = NoThread
    /\ c.op = "Initialize" => (g_initialized \/ setups < MaxSetups)
    /\ g_mutex' = t
    /\ pc' = [pc EXCEPT ![t] = "in"]
    /\ call' = [call EXCEPT ![t] = c]
    /\ outcome' = [outcome EXCEPT ![t] = "pending"]
    /\ ret' = [ret EXCEPT ![t] = 0]
    /\ retStr' = [retStr EXCEPT ![t] = ""]
    /\ nativeCalls' = [nativeCalls EXCEPT ![t] = 0]
    /\ nativeFailed' = [nativeFailed EXCEPT ![t] = FALSE]
    /\ UNCHANGED <<globalVars, nativeVars, handlerVars>>

\* return v: the lock_guard releases the mutex.
Return(t, v, n) ==
    /\ g_mutex' = NoThread
    /\ pc' = [pc EXCEPT ![t] = "idle"]
    /\ outcome' = [outcome EXCEPT ![t] = "returned"]
    /\ ret' = [ret EXCEPT ![t] = v]
    /\ nativeCalls' = [nativeCalls EXCEPT ![t] = n]
    /\ call' = call
    /\ UNCHANGED <<retStr, handlerVars>>

\* The thread waits in std::mutex::lock for a mutex it owns itself.
Block(t, n) ==
    /\ g_mutex' = g_mutex
    /\ pc' = [pc EXCEPT ![t] = "blocked"]
    /\ outcome' = [outcome EXCEPT ![t] = "blocked"]
    /\ nativeCalls' = [nativeCalls EXCEPT ![t] = n]
    /\ UNCHANGED <<ret, retStr, call, handlerVars>>

\* An exception leaves the operation: no value is returned; unwinding
\* destroys the lock_guard.
Escape(t, n) ==
    /\ g_mutex' = NoThread
    /\ pc' = [pc EXCEPT ![t] = "idle"]
    /\ outcome' = [outcome EXCEPT ![t] = "threw"]
    /\ nativeCalls' = [nativeCalls EXCEPT ![t] = n]
    /\ UNCHANGED <<ret, retStr, call, handlerVars>>

\* SetError locks g_mutex itself.  Called by a thread that already owns the
\* (non-recursive) mutex this is undefined behaviour: the thread waits for
\* itself, or lock() throws std::system_error, or the library counts the
\* second lock of the owner and the string is set with the caller still
\* the owner.  Called by any other thread the string is set.
SetErrorOutcomes(t) ==
    IF g_mutex = t THEN {"set", "blocked", "threw"} ELSE {"set"}

\* SetError(msg); return code;  outside any try block, or inside a catch
\* handler (an exception thrown there is not caught by a sibling handler).
Fail(t, msg, code, n) ==
    \E o \in SetErrorOutcomes(t) :
        \/ o = "set" /\ g_lastError' = msg /\ Return(t, code, n)
        \/ o = "blocked" /\ g_lastError' = g_lastError /\ Block(t, n)
        \/ o = "threw" /\ g_lastError' = g_lastError /\ Escape(t, n)

\* SetError(msg); return code;  inside the try block of SmtcInitialize: a
\* std::system_error thrown by lock() is caught by catch (std::exception),
\* whose handler calls SetError again and returns -3.
FailInTry(t, msg, code, n) ==
    \E o \in SetErrorOutcomes(t) :
        \/ o = "set" /\ g_lastError' = msg /\ Return(t, code, n)
        \/ o = "blocked" /\ g_lastError' = g_lastError /\ Block(t, n)
        \/ o = "threw" /\ Fail(t, "Exception: resource deadlock would occur", -3, n)

\* A native object lives as long as a handle refers to it.
Collect(o, mp, smtc, du) ==
    [i \in Ids |-> IF i \in {mp, smtc, du} THEN o[i] ELSE DeadObj]


\* ------------------------------------------------------------ lifecycle

\* The handles and the native objects, as the sequential code of
\* SmtcInitialize and SmtcShutdown passes them from statement to statement.
World ==
    [mp |-> g_mediaPlayer, smtc |-> g_smtc, du |-> g_displayUpdater,
     tok |-> g_buttonPressedToken, setups |-> setups, objs |-> objs]

\* Statements 1..12 of the setup in SmtcInitialize, after CoInitializeEx.
InitStepCount == 12

\* Mutant of InitStep: the controls are enabled before the handler is
\* registered.
InitStep_EnablesFirst(w, k) ==
    CASE k = 1 -> [w EXCEPT !.mp = w.setups, !.objs[w.setups] = NewObj]
      [] k = 2 -> [w EXCEPT !.objs[w.mp].autoCmd = FALSE]
      [] k = 3 -> [w EXCEPT !.smtc = w.mp]
      [] k = 4 -> [w EXCEPT !.objs[w.smtc].btn["Play"] = TRUE]
      [] k = 5 -> [w EXCEPT !.objs[w.smtc].btn["Pause"] = TRUE]
      [] k = 6 -> [w EXCEPT !.objs[w.smtc].btn["Next"] = TRUE]
      [] k = 7 -> [w EXCEPT !.objs[w.smtc].btn["Previous"] = TRUE]
      [] k = 8 -> [w EXCEPT !.objs[w.smtc].btn["Stop"] = FALSE]
      [] k = 9 -> [w EXCEPT !.du = w.smtc]
      [] k = 10 -> [w EXCEPT !.objs[w.du].staged.type = "Music"]
      [] k = 11 -> [w EXCEPT !.objs[w.smtc].isEnabled = TRUE]
      [] k = 12 -> [w EXCEPT !.tok = w.smtc,
                             !.objs[w.smtc].sinks = w.objs[w.smtc].sinks \cup {w.smtc}]

InitStep(w, k) ==
    CASE k = 1 -> [w EXCEPT !.mp = w.setups, !.objs[w.setups] = NewObj]
      [] k = 2 -> [w EXCEPT !.objs[w.mp].autoCmd = FALSE]
      [] k = 3 -> [w EXCEPT !.smtc = w.mp]
      [] k = 4 -> [w EXCEPT !.objs[w.smtc].btn["Play"] = TRUE]
      [] k = 5 -> [w EXCEPT !.objs[w.smtc].btn["Pause"] = TRUE]
      [] k = 6 -> [w EXCEPT !.objs[w.smtc].btn["Next"] = TRUE]
      [] k = 7 -> [w EXCEPT !.objs[w.smtc].btn["Previous"] = TRUE]
      [] k = 8 -> [w EXCEPT !.objs[w.smtc].btn["Stop"] = FALSE]
      [] k = 9 -> [w EXCEPT !.du = w.smtc]
      [] k = 10 -> [w EXCEPT !.objs[w.du].staged.type = "Music"]
      [] k = 11 -> [w EXCEPT !.tok = w.smtc,
                             !.objs[w.smtc].sinks = w.objs[w.smtc].sinks \cup {w.smtc}]
      [] k = 12 -> [w EXCEPT !.objs[w.smtc].isEnabled = TRUE]

RECURSIVE RunInit(_, _)
RunInit(w, n) == IF n = 0 THEN w ELSE InitStep(RunInit(w, n - 1), n)

\* What CoInitializeEx(nullptr, COINIT_MULTITHREADED) can answer on thread t:
\* S_OK only for the thread's first initialization, RPC_E_CHANGED_MODE only
\* when the bridge holds no multithreaded initialization of its own there.
Hresults == {"S_OK", "S_FALSE", "RPC_E_CHANGED_MODE", "E_FAIL"}

HresultPossible(t, hr) ==
    /\ hr = "S_OK" => comInits[t] = 0
    /\ hr = "RPC_E_CHANGED_MODE" => comInits[t] = 0

\* SUCCEEDED(hr): S_OK and S_FALSE.
SUCCEEDED(hr) == hr \in {"S_OK", "S_FALSE"}

NoFault == [kind |-> "none", at |-> 0]
NullSmtc == [kind |-> "null_smtc", at |-> 3]
Throws(kind, k) == [kind |-> kind, at |-> k]

\* The native failures of a setup: none; SystemMediaTransportControls()
\* answers null; statement k throws winrt::hresult_error; the MediaPlayer
\* constructor throws a std::exception.
InitFaults ==
    {NoFault, NullSmtc, Throws("std", 1)} \cup {Throws("hresult", k) : k \in 1..InitStepCount}

\* Statements completed before the setup stops.
StepsDone(fault) ==
    CASE fault.kind = "none" -> InitStepCount
      [] fault.kind = "null_smtc" -> 2
      [] OTHER -> fault.at - 1

InstallHandles(w) ==
    /\ g_mediaPlayer' = w.mp
    /\ g_smtc' = w.smtc
    /\ g_displayUpdater' = w.du
    /\ g_buttonPressedToken' = w.tok
    /\ setups' = w.setups
    /\ objs' = Collect(w.objs, w.mp, w.smtc, w.du)

\* The body of SmtcInitialize when g_initialized is false.
InitializeSetup(t, hr, fault) ==
    /\ HresultPossible(t, hr)
    /\ g_comInitialized' = (IF SUCCEEDED(hr) THEN TRUE
                            ELSE IF hr = "RPC_E_CHANGED_MODE" THEN FALSE
                            ELSE g_comInitialized)
    /\ comInits' = [comInits EXCEPT ![t] = IF SUCCEEDED(hr) THEN @ + 1 ELSE @]
    /\ UNCHANGED callbackVars
    /\ IF ~SUCCEEDED(hr) /\ hr # "RPC_E_CHANGED_MODE"
         THEN /\ FailInTry(t, "Failed to initialize COM", -1, 1)
              /\ setups' = setups + 1
              /\ UNCHANGED <<initVars, handleVars, objs>>
         ELSE LET w1 == RunInit([World EXCEPT !.setups = setups + 1], StepsDone(fault))
                  w2 == IF fault.kind = "null_smtc"
                          THEN [w1 EXCEPT !.smtc = NullHandle] ELSE w1
              IN  /\ InstallHandles(w2)
                  /\ CASE fault.kind = "none" ->
                            /\ g_initialized' = TRUE
                            /\ sessions' = sessions + 1
                            /\ g_lastError' = ""
                            /\ Return(t, 0, 1 + InitStepCount)
                       [] fault.kind = "null_smtc" ->
                            /\ UNCHANGED initVars
                            /\ FailInTry(t, "Failed to get SystemMediaTransportControls", -1, 1 + fault.at)
                       [] fault.kind = "hresult" ->
                            /\ UNCHANGED initVars
                            /\ Fail(t, "WinRT error: E", -2, 1 + fault.at)
                       [] fault.kind = "std" ->
                            /\ UNCHANGED initVars
                            /\ Fail(t, "Exception: E", -3, 1 + fault.at)

\* Mutant of InitializeAlready: the early return is missing and the setup
\* runs again.
InitializeAlready_SetsUpAgain(t) ==
    InitializeSetup(t, "S_FALSE", NoFault)

\* if (g_initialized) return 0;
InitializeAlready(t) ==
    /\ Return(t, 0, 0)
    /\ UNCHANGED <<globalVars, nativeVars>>

SmtcInitialize(t, hr, fault) ==
    /\ pc[t] = "in"
    /\ call[t].op = "Initialize"
    /\ nativeFailed' = [nativeFailed EXCEPT ![t] = ~g_initialized /\ (hr = "E_FAIL" \/ fault # NoFault)]
    /\ IF g_initialized
         THEN InitializeAlready(t)
         ELSE InitializeSetup(t, hr, fault)

\* The native teardown calls of SmtcShutdown that can throw.
TeardownCalls == {"unregister", "disable", "close"}

\* try { g_smtc.ButtonPressed(g_buttonPressedToken); } catch (...) {}
ShutdownUnregister(w, fails) ==
    IF "unregister" \in fails THEN w
    ELSE [w EXCEPT !.objs[w.smtc].sinks = w.objs[w.smtc].sinks \ {w.tok}]

\* try { g_smtc.IsEnabled(false); } catch (...) {}
ShutdownDisable(w, fails) ==
    IF "disable" \in fails THEN w
    ELSE [w EXCEPT !.objs[w.smtc].isEnabled = FALSE]

\* g_displayUpdater = nullptr;  g_smtc = nullptr;
ShutdownReleaseControls(w) ==
    [w EXCEPT !.du = NullHandle, !.smtc = NullHandle]

\* try { if (g_mediaPlayer) { g_mediaPlayer.Close(); } g_mediaPlayer = nullptr; }
\* catch (...) {}
ShutdownClosePlayer(w, fails) ==
    IF w.mp = NullHandle THEN w
    ELSE IF "close" \in fails THEN w
    ELSE [w EXCEPT !.objs[w.mp].closed = TRUE, !.mp = NullHandle]

ShutdownTeardown(w, fails) ==
    LET w1 == IF w.smtc # NullHandle
                THEN ShutdownDisable(ShutdownUnregister(w, fails), fails)
                ELSE w
    IN  ShutdownClosePlayer(ShutdownReleaseControls(w1), fails)

\* Native calls SmtcShutdown makes when initialized.
ShutdownCalls ==
    (IF g_smtc # NullHandle THEN 2 ELSE 0)
    + (IF g_mediaPlayer # NullHandle THEN 1 ELSE 0)
    + (IF g_comInitialized THEN 1 ELSE 0)

\* Mutant of ShutdownRun: g_initialized = false is missing.
ShutdownRun_KeepsFlag(t, fails) ==
    /\ InstallHandles(ShutdownTeardown(World, fails))
    /\ g_buttonCallback' = 0
    /\ g_positionCallback' = 0
    /\ UNCHANGED initVars
    /\ comInits' = [comInits EXCEPT ![t] = IF g_comInitialized THEN @ - 1 ELSE @]
    /\ g_comInitialized' = FALSE
    /\ g_lastError' = g_lastError
    /\ Return(t, 0, ShutdownCalls)

\* The body of SmtcShutdown when g_initialized is true.
ShutdownRun(t, fails) ==
    /\ InstallHandles(ShutdownTeardown(World, fails))
    /\ g_buttonCallback' = 0
    /\ g_positionCallback' = 0
    /\ g_initialized' = FALSE
    /\ sessions' = sessions
    /\ comInits' = [comInits EXCEPT ![t] = IF g_comInitialized THEN @ - 1 ELSE @]
    /\ g_comInitialized' = FALSE
    /\ g_lastError' = g_lastError
    /\ Return(t, 0, ShutdownCalls)

\* Mutant of ShutdownNotInitialized: the early return is missing and the
\* teardown runs.
ShutdownNotInitialized_TearsDown(t) ==
    ShutdownRun(t, {})

\* if (!g_initialized) return;
ShutdownNotInitialized(t) ==
    /\ Return(t, 0, 0)
    /\ UNCHANGED <<globalVars, nativeVars>>

SmtcShutdown(t, fails) ==
    /\ pc[t] = "in"
    /\ call[t].op = "Shutdown"
    /\ nativeFailed' = [nativeFailed EXCEPT ![t] = g_initialized /\ fails # {}]
    /\ IF ~g_initialized
         THEN ShutdownNotInitialized(t)
         ELSE ShutdownRun(t, fails)

SmtcIsInitialized(t) ==
    /\ pc[t] = "in"
    /\ call[t].op = "IsInitialized"
    /\ nativeFailed' = [nativeFailed EXCEPT ![t] = FALSE]
    /\ Return(t, IF g_initialized THEN 1 ELSE 0, 0)
    /\ UNCHANGED <<globalVars, nativeVars>>


\* ----------------------------------------------------- metadata setters

\* if (!g_initialized || !g_displayUpdater)
NoUpdater == ~g_initialized \/ g_displayUpdater = NullHandle

\* if (!g_initialized || !g_smtc)
NoControls == ~g_initialized \/ g_smtc = NullHandle

\* SetError("Not initialized"); return -1;
NotInitialized(t) ==
    /\ Fail(t, "Not initialized", -1, 0)
    /\ UNCHANGED <<initVars, g_comInitialized, handleVars, callbackVars, nativeVars>>

\* catch (const winrt::hresult_error& ex) { SetError("WinRT error: " + ...); return -2; }
\* after n native calls, the native objects left as o.
WinRTError(t, o, n) ==
    /\ objs' = o
    /\ Fail(t, "WinRT error: E", -2, n)
    /\ UNCHANGED <<initVars, g_comInitialized, handleVars, callbackVars, comInits, setups>>

\* Mutant of Succeed: the success path clears the error string.
Succeed_ClearsError(t, o, n) ==
    /\ objs' = o
    /\ g_lastError' = ""
    /\ Return(t, 0, n)
    /\ UNCHANGED <<initVars, g_comInitialized, handleVars, callbackVars, comInits, setups>>

\* return 0; after n native calls, the native objects left as o.
Succeed(t, o, n) ==
    /\ objs' = o
    /\ g_lastError' = g_lastError
    /\ Return(t, 0, n)
    /\ UNCHANGED <<initVars, g_comInitialized, handleVars, callbackVars, comInits, setups>>

\* The switch of SmtcSetMediaType.
MediaTypeToNative(m) ==
    CASE m = SMTC_MEDIA_MUSIC -> "Music"
      [] m = SMTC_MEDIA_VIDEO -> "Video"
      [] m = SMTC_MEDIA_IMAGE -> "Image"
      [] OTHER -> "Unknown"

SmtcSetMediaType(t, fail) ==
    /\ pc[t] = "in"
    /\ call[t].op = "SetMediaType"
    /\ nativeFailed' = [nativeFailed EXCEPT ![t] = ~NoUpdater /\ fail]
    /\ IF NoUpdater THEN NotInitialized(t)
       ELSE IF fail THEN WinRTError(t, objs, 1)
       ELSE Succeed(t, [objs EXCEPT ![g_displayUpdater].staged.type =
                                        MediaTypeToNative(call[t].mediaType)], 1)

\* Mutant of StageField: the null test is missing, a null argument clears.
StageField_NullClears(meta, field, arg) ==
    [meta EXCEPT ![field] = arg.s]

\* if (title) musicProps.Title(title);  and the like: a null argument makes
\* no native call.
StageField(meta, field, arg) ==
    IF arg.null THEN meta ELSE [meta EXCEPT ![field] = arg.s]

\* The setters of SmtcSetMusicInfo run in the order title, artist, album;
\* the one named by fault throws, the ones before it have taken effect.
MusicFaults == {"none", "props", "title", "artist", "album"}

StageMusic(meta, c, fault) ==
    LET m1 == IF fault \in {"props", "title"} THEN meta
              ELSE StageField(meta, "title", c.title)
        m2 == IF fault \in {"props", "title", "artist"} THEN m1
              ELSE StageField(m1, "artist", c.artist)
        m3 == IF fault \in {"props", "title", "artist", "album"} THEN m2
              ELSE StageField(m2, "album", c.album)
    IN  m3

\* A setter that is not called (null argument) cannot throw.
MusicFaultApplies(c, fault) ==
    CASE fault = "title" -> ~c.title.null
      [] fault = "artist" -> ~c.artist.null
      [] fault = "album" -> ~c.album.null
      [] OTHER -> TRUE

\* Native calls of SmtcSetMusicInfo up to and including the one that throws.
MusicNativeCalls(c, fault) ==
    1 + (IF fault \notin {"props"} /\ ~c.title.null THEN 1 ELSE 0)
      + (IF fault \notin {"props", "title"} /\ ~c.artist.null THEN 1 ELSE 0)
      + (IF fault \notin {"props", "title", "artist"} /\ ~c.album.null THEN 1 ELSE 0)

SmtcSetMusicInfo(t, fault) ==
    /\ pc[t] = "in"
    /\ call[t].op = "SetMusicInfo"
    /\ nativeFailed' = [nativeFailed EXCEPT ![t] = ~NoUpdater /\ fault # "none"]
    /\ IF NoUpdater THEN NotInitialized(t)
       ELSE /\ MusicFaultApplies(call[t], fault)
            /\ LET o == [objs EXCEPT ![g_displayUpdater].staged =
                                         StageMusic(@, call[t], fault)]
               IN  IF fault # "none"
                     THEN WinRTError(t, o, MusicNativeCalls(call[t], fault))
                     ELSE Succeed(t, o, MusicNativeCalls(call[t], fault))

\* Mutant of StageThumb: the thumbnail is shown at once, not staged.
StageThumb_ShownAtOnce(o, du, thumb) ==
    [o EXCEPT ![du].staged.thumb = thumb, ![du].visible.thumb = thumb]

\* g_displayUpdater.Thumbnail(streamRef) / Thumbnail(nullptr)
StageThumb(o, du, thumb) == [o EXCEPT ![du].staged.thumb = thumb]

\* if (filePath) { Uri; CreateFromUri; Thumbnail(streamRef) } else { Thumbnail(nullptr) }
ThumbFromFile(c) ==
    IF ~c.filePath.null THEN FileThumb(c.filePath.s) ELSE NoThumb

SmtcSetThumbnailFromFile(t, fail) ==
    /\ pc[t] = "in"
    /\ call[t].op = "SetThumbnailFromFile"
    /\ nativeFailed' = [nativeFailed EXCEPT ![t] = ~NoUpdater /\ fail]
    /\ IF NoUpdater THEN NotInitialized(t)
       ELSE IF fail THEN WinRTError(t, objs, 1)
       ELSE Succeed(t, StageThumb(objs, g_displayUpdater, ThumbFromFile(call[t])),
                    IF call[t].filePath.null THEN 1 ELSE 3)

\* writer.WriteBytes({ data, data + dataSize }): the first dataSize bytes.
CopyBytes(data, dataSize) == SubSeq(data.bytes, 1, dataSize)

\* Mutant of ThumbFromMemory: dataSize > 0 is not tested.
ThumbFromMemory_AnySize(c) ==
    IF ~c.data.null
      THEN MemThumb(CopyBytes(c.data, c.dataSize))
      ELSE NoThumb

\* if (data && dataSize > 0) { ... Thumbnail(streamRef) } else { Thumbnail(nullptr) }
\* mimeType is not read.
ThumbFromMemory(c) ==
    IF ~c.data.null /\ c.dataSize > 0
      THEN MemThumb(CopyBytes(c.data, c.dataSize))
      ELSE NoThumb

SmtcSetThumbnailFromMemory(t, fail) ==
    /\ pc[t] = "in"
    /\ call[t].op = "SetThumbnailFromMemory"
    /\ nativeFailed' = [nativeFailed EXCEPT ![t] = ~NoUpdater /\ fail]
    /\ IF NoUpdater THEN NotInitialized(t)
       ELSE IF fail THEN WinRTError(t, objs, 1)
       ELSE Succeed(t, StageThumb(objs, g_displayUpdater, ThumbFromMemory(call[t])),
                    IF ~call[t].data.null /\ call[t].dataSize > 0 THEN 7 ELSE 1)

SmtcClearThumbnail(t, fail) ==
    /\ pc[t] = "in"
    /\ call[t].op = "ClearThumbnail"
    /\ nativeFailed' = [nativeFailed EXCEPT ![t] = ~NoUpdater /\ fail]
    /\ IF NoUpdater THEN NotInitialized(t)
       ELSE IF fail THEN WinRTError(t, objs, 1)
       ELSE Succeed(t, StageThumb(objs, g_displayUpdater, NoThumb), 1)

\* g_displayUpdater.Update(): the shell shows what was staged.
UpdateNative(o, du) == [o EXCEPT ![du].visible = o[du].staged]

SmtcUpdateDisplay(t, fail) ==
    /\ pc[t] = "in"
    /\ call[t].op = "UpdateDisplay"
    /\ nativeFailed' = [nativeFailed EXCEPT ![t] = ~NoUpdater /\ fail]
    /\ IF NoUpdater THEN NotInitialized(t)
       ELSE IF fail THEN WinRTError(t, objs, 1)
       ELSE Succeed(t, UpdateNative(objs, g_displayUpdater), 1)

\* ------------------------------------------- playback status and buttons

\* Mutant of StatusToNative: the Changing case is missing and falls to default.
StatusToNative_NoChanging(s) ==
    CASE s = SMTC_PLAYBACK_CLOSED -> "Closed"
      [] s = SMTC_PLAYBACK_STOPPED -> "Stopped"
      [] s = SMTC_PLAYBACK_PLAYING -> "Playing"
      [] s = SMTC_PLAYBACK_PAUSED -> "Paused"
      [] OTHER -> "Stopped"

\* The switch of SmtcSetPlaybackStatus.
StatusToNative(s) ==
    CASE s = SMTC_PLAYBACK_CLOSED -> "Closed"
      [] s = SMTC_PLAYBACK_STOPPED -> "Stopped"
      [] s = SMTC_PLAYBACK_PLAYING -> "Playing"
      [] s = SMTC_PLAYBACK_PAUSED -> "Paused"
      [] s = SMTC_PLAYBACK_CHANGING -> "Changing"
      [] OTHER -> "Stopped"

\* The switch of SmtcGetPlaybackStatus.
StatusFromNative(n) ==
    CASE n = "Closed" -> SMTC_PLAYBACK_CLOSED
      [] n = "Stopped" -> SMTC_PLAYBACK_STOPPED
      [] n = "Playing" -> SMTC_PLAYBACK_PLAYING
      [] n = "Paused" -> SMTC_PLAYBACK_PAUSED
      [] n = "Changing" -> SMTC_PLAYBACK_CHANGING
      [] OTHER -> SMTC_PLAYBACK_STOPPED

SmtcSetPlaybackStatus(t, fail) ==
    /\ pc[t] = "in"
    /\ call[t].op = "SetPlaybackStatus"
    /\ nativeFailed' = [nativeFailed EXCEPT ![t] = ~NoControls /\ fail]
    /\ IF NoControls THEN NotInitialized(t)
       ELSE IF fail THEN WinRTError(t, objs, 1)
       ELSE Succeed(t, [objs EXCEPT ![g_smtc].status = StatusToNative(call[t].status)], 1)

\* Reads only; catch (...) { return SMTC_PLAYBACK_CLOSED; }
SmtcGetPlaybackStatus(t, fail) ==
    /\ pc[t] = "in"
    /\ call[t].op = "GetPlaybackStatus"
    /\ nativeFailed' = [nativeFailed EXCEPT ![t] = ~NoControls /\ fail]
    /\ Return(t, IF NoControls THEN SMTC_PLAYBACK_CLOSED
                 ELSE IF fail THEN SMTC_PLAYBACK_CLOSED
                 ELSE StatusFromNative(objs[g_smtc].status),
              IF NoControls THEN 0 ELSE 1)
    /\ UNCHANGED <<globalVars, nativeVars>>

\* The switch shared by SmtcSetButtonEnabled and SmtcIsButtonEnabled: the
\* property a button type is wired to, "" for the default branch.
ButtonProp(b) ==
    CASE b = SMTC_BUTTON_PLAY -> "Play"
      [] b = SMTC_BUTTON_PAUSE -> "Pause"
      [] b = SMTC_BUTTON_STOP -> "Stop"
      [] b = SMTC_BUTTON_NEXT -> "Next"
      [] b = SMTC_BUTTON_PREVIOUS -> "Previous"
      [] b = SMTC_BUTTON_FAST_FORWARD -> "FastForward"
      [] b = SMTC_BUTTON_REWIND -> "Rewind"
      [] OTHER -> ""

\* Mutant of IsEnabledArg: only 1 enables.
IsEnabledArg_OnlyOne(enabled) == enabled = 1

\* bool isEnabled = (enabled != 0);
IsEnabledArg(enabled) == enabled # 0

\* g_smtc.IsXxxEnabled(isEnabled)
SetButtonNative(o, smtc, prop, enabled) ==
    [o EXCEPT ![smtc].btn[prop] = IsEnabledArg(enabled)]

SmtcSetButtonEnabled(t, fail) ==
    /\ pc[t] = "in"
    /\ call[t].op = "SetButtonEnabled"
    /\ nativeFailed' = [nativeFailed EXCEPT ![t] = ~NoControls /\ ButtonProp(call[t].buttonType) # "" /\ fail]
    /\ IF NoControls THEN NotInitialized(t)
       ELSE IF ButtonProp(call[t].buttonType) = ""
         THEN /\ Fail(t, "Unknown button type", -1, 0)
              /\ UNCHANGED <<initVars, g_comInitialized, handleVars, callbackVars, nativeVars>>
       ELSE IF fail THEN WinRTError(t, objs, 1)
       ELSE Succeed(t, SetButtonNative(objs, g_smtc, ButtonProp(call[t].buttonType),
                                       call[t].enabled), 1)

\* return g_smtc.IsXxxEnabled() ? 1 : 0;  default: return 0;
\* catch (...) { return 0; }
IsButtonEnabledResult(b, fail) ==
    IF NoControls THEN 0
    ELSE IF ButtonProp(b) = "" THEN 0
    ELSE IF fail THEN 0
    ELSE IF objs[g_smtc].btn[ButtonProp(b)] THEN 1 ELSE 0

SmtcIsButtonEnabled(t, fail) ==
    /\ pc[t] = "in"
    /\ call[t].op = "IsButtonEnabled"
    /\ nativeFailed' = [nativeFailed EXCEPT ![t] = ~NoControls /\ ButtonProp(call[t].buttonType) # "" /\ fail]
    /\ Return(t, IsButtonEnabledResult(call[t].buttonType, fail),
              IF NoControls \/ ButtonProp(call[t].buttonType) = "" THEN 0 ELSE 1)
    /\ UNCHANGED <<globalVars, nativeVars>>

\* ------------------------------------------------------------- timeline

\* std::chrono::milliseconds(ms) converted to TimeSpan: the count times
\* 10000 in int64_t.  A product outside int64_t is a signed overflow; the
\* multiply instruction leaves its low 64 bits.
ToTimeSpan(ms) == MulLimbs(ms, TicksPerMs, 1, 0)

\* The five setters of SmtcSetTimelineProperties.
TimelineOf(c) ==
    [set |-> TRUE, start |-> ToTimeSpan(c.startTimeMs), end |-> ToTimeSpan(c.endTimeMs),
     position |-> ToTimeSpan(c.positionMs), minSeek |-> ToTimeSpan(c.startTimeMs),
     maxSeek |-> ToTimeSpan(c.endTimeMs)]

SmtcSetTimelineProperties(t, fail) ==
    /\ pc[t] = "in"
    /\ call[t].op = "SetTimelineProperties"
    /\ nativeFailed' = [nativeFailed EXCEPT ![t] = ~NoControls /\ fail]
    /\ IF NoControls THEN NotInitialized(t)
       ELSE IF fail THEN WinRTError(t, objs, 1)
       ELSE Succeed(t, [objs EXCEPT ![g_smtc].timeline = TimelineOf(call[t])], 6)

\* ------------------------------------------------- callbacks and errors

SmtcSetButtonPressedCallback(t) ==
    /\ pc[t] = "in"
    /\ call[t].op = "SetButtonPressedCallback"
    /\ nativeFailed' = [nativeFailed EXCEPT ![t] = FALSE]
    /\ g_buttonCallback' = call[t].callback
    /\ Return(t, 0, 0)
    /\ UNCHANGED <<initVars, g_comInitialized, handleVars, g_lastError,
                   g_positionCallback, nativeVars>>

SmtcSetPositionChangeRequestedCallback(t) ==
    /\ pc[t] = "in"
    /\ call[t].op = "SetPositionChangeRequestedCallback"
    /\ nativeFailed' = [nativeFailed EXCEPT ![t] = FALSE]
    /\ g_positionCallback' = call[t].callback
    /\ Return(t, 0, 0)
    /\ UNCHANGED <<initVars, g_comInitialized, handleVars, g_lastError,
                   g_buttonCallback, nativeVars>>

\* return g_lastError.c_str();  the caller reads the string as it is when
\* the call returns.
SmtcGetLastError(t) ==
    /\ pc[t] = "in"
    /\ call[t].op = "GetLastError"
    /\ nativeFailed' = [nativeFailed EXCEPT ![t] = FALSE]
    /\ g_mutex' = NoThread
    /\ pc' = [pc EXCEPT ![t] = "idle"]
    /\ outcome' = [outcome EXCEPT ![t] = "returned"]
    /\ retStr' = [retStr EXCEPT ![t] = g_lastError]
    /\ UNCHANGED <<ret, nativeCalls, call, globalVars, nativeVars, handlerVars>>

SmtcClearError(t) ==
    /\ pc[t] = "in"
    /\ call[t].op = "ClearError"
    /\ nativeFailed' = [nativeFailed EXCEPT ![t] = FALSE]
    /\ g_lastError' = ""
    /\ Return(t, 0, 0)
    /\ UNCHANGED <<initVars, g_comInitialized, handleVars, callbackVars, nativeVars>>

\* ------------------------------------------- the ButtonPressed handler
\* The lambda registered by SmtcInitialize, run by the OS on its own thread
\* for each press.  It takes no lock.

\* SystemMediaTransportControlsButton
NativeButtons ==
    {"Play", "Pause", "Stop", "Record", "FastForward", "Rewind", "Next", "Previous",
     "ChannelUp", "ChannelDown"}

\* Mutant of HandlerButton: Record is relayed too.
HandlerButton_RelaysRecord(nb) ==
    CASE nb = "Play" -> SMTC_BUTTON_PLAY
      [] nb = "Pause" -> SMTC_BUTTON_PAUSE
      [] nb = "Stop" -> SMTC_BUTTON_STOP
      [] nb = "Next" -> SMTC_BUTTON_NEXT
      [] nb = "Previous" -> SMTC_BUTTON_PREVIOUS
      [] nb = "FastForward" -> SMTC_BUTTON_FAST_FORWARD
      [] nb = "Rewind" -> SMTC_BUTTON_REWIND
      [] nb = "Record" -> SMTC_BUTTON_RECORD
      [] OTHER -> -1

\* switch (args.Button()): the public value, -1 for default: return;
HandlerButton(nb) ==
    CASE nb = "Play" -> SMTC_BUTTON_PLAY
      [] nb = "Pause" -> SMTC_BUTTON_PAUSE
      [] nb = "Stop" -> SMTC_BUTTON_STOP
      [] nb = "Next" -> SMTC_BUTTON_NEXT
      [] nb = "Previous" -> SMTC_BUTTON_PREVIOUS
      [] nb = "FastForward" -> SMTC_BUTTON_FAST_FORWARD
      [] nb = "Rewind" -> SMTC_BUTTON_REWIND
      [] OTHER -> -1

\* The OS raises ButtonPressed on the controls of object o, which has a
\* handler registered, for native button nb.
Deliver(o, nb) ==
    /\ hpc = "idle"
    /\ objs[o].alive
    /\ objs[o].sinks # {}
    /\ hpc' = "delivered"
    /\ hEvent' = [sender |-> o, button |-> nb]
    /\ hCalls' = 0
    /\ UNCHANGED <<hTested, relayed, threadVars, globalVars, nativeVars>>

\* if (g_buttonCallback) { switch (args.Button()) { ... default: return; }
\* The slot is read without g_mutex.
HandlerTest ==
    /\ hpc = "delivered"
    /\ IF g_buttonCallback = 0 \/ HandlerButton(hEvent.button) = -1
         THEN hpc' = "idle" /\ hTested' = hTested
         ELSE hpc' = "tested" /\ hTested' = g_buttonCallback
    /\ UNCHANGED <<hEvent, hCalls, relayed, threadVars, globalVars, nativeVars>>

\* The values the second, unsynchronised read of g_buttonCallback can give:
\* the slot as it is now, or the value tested (the compiler may keep it).
InvokedValues == {hTested, g_buttonCallback}

\* g_buttonCallback(buttonType);  a call through a null pointer ends the
\* process.
HandlerInvoke(f) ==
    /\ hpc = "tested"
    /\ f \in InvokedValues
    /\ IF f = 0
         THEN /\ hpc' = "crashed"
              /\ UNCHANGED <<hCalls, relayed, outcome>>
         ELSE /\ hpc' = "calling"
              /\ hCalls' = hCalls + 1
              /\ relayed' = [callback |-> f, buttonType |-> HandlerButton(hEvent.button)]
              /\ outcome' = [outcome EXCEPT ![OsThread] = "none"]
    /\ UNCHANGED <<hEvent, hTested, g_mutex, pc, call, ret, retStr, nativeCalls,
                   nativeFailed, globalVars, nativeVars>>

\* The host's callback, running on the OS thread, calls public operation c
\* (at most one per invocation).
CallbackEnter(c) ==
    /\ hpc = "calling"
    /\ outcome[OsThread] = "none"
    /\ Enter(OsThread, c)

\* The callback returns (or the exception of its operation leaves it), and
\* the handler with it.
HandlerReturn ==
    /\ hpc = "calling"
    /\ pc[OsThread] = "idle"
    /\ hpc' = "idle"
    /\ UNCHANGED <<hEvent, hTested, hCalls, relayed, threadVars, globalVars, nativeVars>>


\* -------------------------------------------------------- call records

CInitialize == [op |-> "Initialize"]
CShutdown == [op |-> "Shutdown"]
CIsInitialized == [op |-> "IsInitialized"]
CSetMediaType(m) == [op |-> "SetMediaType", mediaType |-> m]
CSetMusicInfo(ti, ar, al) == [op |-> "SetMusicInfo", title |-> ti, artist |-> ar, album |-> al]
CSetThumbnailFromFile(p) == [op |-> "SetThumbnailFromFile", filePath |-> p]
CSetThumbnailFromMemory(d, n, m) ==
    [op |-> "SetThumbnailFromMemory", data |-> d, dataSize |-> n, mimeType |-> m]
CClearThumbnail == [op |-> "ClearThumbnail"]
CUpdateDisplay == [op |-> "UpdateDisplay"]
CSetPlaybackStatus(s) == [op |-> "SetPlaybackStatus", status |-> s]
CGetPlaybackStatus == [op |-> "GetPlaybackStatus"]
CSetButtonEnabled(b, e) == [op |-> "SetButtonEnabled", buttonType |-> b, enabled |-> e]
CIsButtonEnabled(b) == [op |-> "IsButtonEnabled", buttonType |-> b]
CSetTimelineProperties(s, e, p) ==
    [op |-> "SetTimelineProperties", startTimeMs |-> s, endTimeMs |-> e, positionMs |-> p]
CSetButtonPressedCallback(f) == [op |-> "SetButtonPressedCallback", callback |-> f]
CSetPositionChangeRequestedCallback(f) ==
    [op |-> "SetPositionChangeRequestedCallback", callback |-> f]
CGetLastError == [op |-> "GetLastError"]
CClearError == [op |-> "ClearError"]

\* The nine operations that answer "Not initialized".
GuardedOps ==
    {"SetMediaType", "SetMusicInfo", "SetThumbnailFromFile", "SetThumbnailFromMemory",
     "ClearThumbnail", "UpdateDisplay", "SetPlaybackStatus", "SetButtonEnabled",
     "SetTimelineProperties"}

\* ------------------------------------------- specification: life cycle
\* Initialize with every native failure, Shutdown with every subset of
\* failing teardown calls, and each other operation with one or two
\* argument lists.

LifeCallers == {"c1"}

LifeCalls ==
    {CInitialize, CShutdown, CIsInitialized,
     CSetMediaType(SMTC_MEDIA_MUSIC),
     CSetMusicInfo(NullW, NullW, NullW),
     CSetThumbnailFromFile(NullW),
     CSetThumbnailFromMemory(NullData, 0, "image/png"),
     CClearThumbnail, CUpdateDisplay,
     CSetPlaybackStatus(SMTC_PLAYBACK_PLAYING),
     CSetButtonEnabled(SMTC_BUTTON_PLAY, 0), CSetButtonEnabled(SMTC_BUTTON_RECORD, 1),
     CSetTimelineProperties(I64(0), I64(10), I64(5)),
     CSetButtonPressedCallback(1), CSetPositionChangeRequestedCallback(1)}

LifeStep(t) ==
    \/ \E c \in LifeCalls : Enter(t, c)
    \/ \E hr \in Hresults, fault \in InitFaults : SmtcInitialize(t, hr, fault)
    \/ \E fails \in SUBSET TeardownCalls : SmtcShutdown(t, fails)
    \/ SmtcIsInitialized(t)
    \/ \E fail \in BOOLEAN : SmtcSetMediaType(t, fail)
    \/ \E fault \in MusicFaults : SmtcSetMusicInfo(t, fault)
    \/ \E fail \in BOOLEAN : SmtcSetThumbnailFromFile(t, fail)
    \/ \E fail \in BOOLEAN : SmtcSetThumbnailFromMemory(t, fail)
    \/ \E fail \in BOOLEAN : SmtcClearThumbnail(t, fail)
    \/ \E fail \in BOOLEAN : SmtcUpdateDisplay(t, fail)
    \/ \E fail \in BOOLEAN : SmtcSetPlaybackStatus(t, fail)
    \/ \E fail \in BOOLEAN : SmtcSetButtonEnabled(t, fail)
    \/ \E fail \in BOOLEAN : SmtcSetTimelineProperties(t, fail)
    \/ SmtcSetButtonPressedCallback(t)
    \/ SmtcSetPositionChangeRequestedCallback(t)

Next == \E t \in LifeCallers : LifeStep(t)

Spec == Init /\ [][Next]_vars

\* ------------------------------------------------------ step predicates

\* Thread t's operation op runs its body in this step.
Runs(t, op) == pc[t] = "in" /\ call[t].op = op /\ pc'[t] # "in"

\* Thread t's last call was op and has ended.
Ended(t, op) == call[t].op = op /\ outcome[t] \notin {"none", "pending"}

\* ---------------------------------------------------------------- claims

\* C1: while the initialized flag is false, each of the nine guarded
\* operations (SetMediaType, SetMusicInfo, SetThumbnailFromFile,
\* SetThumbnailFromMemory, ClearThumbnail, UpdateDisplay, SetPlaybackStatus,
\* SetButtonEnabled, SetTimelineProperties) returns -1, leaves the last-error
\* string equal to "Not initialized" and leaves the flag false.
C1_NotInitializedAnswer ==
    [][\A t \in Callers : \A op \in GuardedOps :
          (Runs(t, op) /\ ~g_initialized)
              => /\ outcome'[t] = "returned"
                 /\ ret'[t] = -1
                 /\ g_lastError' = "Not initialized"
                 /\ ~g_initialized']_vars

\* C2: every call of a public operation returns to its caller: no thread is
\* ever left waiting for the global lock with nothing that could release it
\* (pc "blocked": the owner it waits for is itself), and no call ends other
\* than by returning.
C2_EveryCallReturns ==
    \A t \in Callers :
        /\ pc[t] # "blocked"
        /\ outcome[t] \in {"none", "pending", "returned"}

\* C3: Initialize called while the module is initialized returns 0 and makes
\* no native call: no apartment initialization, no new session object, no
\* change of button enablement, no second handler; and while the module is
\* initialized exactly one button-press handler is registered, the one whose
\* token the module holds.
C3_InitializeIdempotent ==
    /\ [][\A t \in Callers :
            (Runs(t, "Initialize") /\ g_initialized)
                => /\ outcome'[t] = "returned"
                   /\ ret'[t] = 0
                   /\ nativeCalls'[t] = 0
                   /\ UNCHANGED <<globalVars, nativeVars>>]_vars
    /\ [](g_initialized =>
            /\ g_smtc # NullHandle
            /\ objs[g_smtc].sinks = {g_buttonPressedToken}
            /\ \A i \in Ids \ {g_smtc} : objs[i].sinks = {})

\* C3 witness: a second Initialize has returned 0 while initialized, having
\* made no native call.
C3_Witness ==
    \E t \in Callers :
        /\ Ended(t, "Initialize")
        /\ outcome[t] = "returned"
        /\ ret[t] = 0
        /\ nativeCalls[t] = 0
        /\ g_initialized

\* C4: Shutdown called while initialized leaves the flag false, IsInitialized
\* answers 1 exactly when the flag is true, and an Initialize that runs the
\* setup with no native call failing returns 0 and leaves the flag true, in
\* every cycle and whatever was called in between.
C4_Lifecycle ==
    [][\A t \in Callers :
          /\ (Runs(t, "Shutdown") /\ g_initialized)
                => (outcome'[t] = "returned" /\ ~g_initialized')
          /\ Runs(t, "IsInitialized")
                => /\ outcome'[t] = "returned"
                   /\ ret'[t] = (IF g_initialized THEN 1 ELSE 0)
                   /\ g_initialized' = g_initialized
          /\ (Runs(t, "Initialize") /\ ~nativeFailed'[t])
                => (outcome'[t] = "returned" /\ ret'[t] = 0 /\ g_initialized')]_vars

\* C4 witness: in the second session, after the first was shut down,
\* IsInitialized has answered 1.
C4_Witness ==
    \E t \in Callers :
        /\ sessions = 2
        /\ g_initialized
        /\ Ended(t, "IsInitialized")
        /\ ret[t] = 1

\* C5: Shutdown called while initialized returns with the flag false, both
\* callback slots null and all three native handles released, whichever of
\* its native teardown calls fail.
C5_ShutdownReleasesAll ==
    [][\A t \in Callers :
          (Runs(t, "Shutdown") /\ g_initialized)
              => /\ outcome'[t] = "returned"
                 /\ ~g_initialized'
                 /\ g_buttonCallback' = 0
                 /\ g_positionCallback' = 0
                 /\ g_displayUpdater' = NullHandle
                 /\ g_smtc' = NullHandle
                 /\ g_mediaPlayer' = NullHandle]_vars

\* C6: Shutdown called while the module is uninitialized changes none of the
\* flag, the handles, the apartment-ownership flag, the callback slots and
\* the last-error string, and makes no native call.
C6_ShutdownNoOp ==
    [][\A t \in Callers :
          (Runs(t, "Shutdown") /\ ~g_initialized)
              => /\ outcome'[t] = "returned"
                 /\ nativeCalls'[t] = 0
                 /\ UNCHANGED <<globalVars, nativeVars>>]_vars

\* C6 witness: Shutdown has returned without a native call in a state where
\* a callback is registered and a handle is held, both kept.
C6_Witness ==
    \E t \in Callers :
        /\ Ended(t, "Shutdown")
        /\ outcome[t] = "returned"
        /\ nativeCalls[t] = 0
        /\ ~g_initialized
        /\ g_buttonCallback # 0
        /\ g_smtc # NullHandle


\* ---------------------------------------------- specification: display
\* One session after another, with no failure in setup or teardown; the
\* metadata setters, UpdateDisplay and two operations that are not about
\* metadata, each native call of theirs failing or not.

MetaCallers == {"c1"}

MetaCalls ==
    {CInitialize, CShutdown,
     CSetMediaType(SMTC_MEDIA_VIDEO), CSetMediaType(SMTC_MEDIA_MUSIC),
     CSetMusicInfo(W("A"), NullW, NullW), CSetMusicInfo(NullW, W("B"), W("")),
     CSetThumbnailFromFile(W("f1")),
     CSetThumbnailFromMemory(Data(<<1, 2>>), 2, "image/png"),
     CClearThumbnail, CUpdateDisplay,
     CSetPlaybackStatus(SMTC_PLAYBACK_PLAYING),
     CSetButtonEnabled(SMTC_BUTTON_STOP, 1)}

MetaStep(t) ==
    \/ \E c \in MetaCalls : Enter(t, c)
    \/ \E hr \in {"S_OK", "S_FALSE"} : SmtcInitialize(t, hr, NoFault)
    \/ SmtcShutdown(t, {})
    \/ \E fail \in BOOLEAN : SmtcSetMediaType(t, fail)
    \/ \E fault \in MusicFaults : SmtcSetMusicInfo(t, fault)
    \/ \E fail \in BOOLEAN : SmtcSetThumbnailFromFile(t, fail)
    \/ \E fail \in BOOLEAN : SmtcSetThumbnailFromMemory(t, fail)
    \/ \E fail \in BOOLEAN : SmtcClearThumbnail(t, fail)
    \/ \E fail \in BOOLEAN : SmtcUpdateDisplay(t, fail)
    \/ \E fail \in BOOLEAN : SmtcSetPlaybackStatus(t, fail)
    \/ \E fail \in BOOLEAN : SmtcSetButtonEnabled(t, fail)

MetaNext == \E t \in MetaCallers : MetaStep(t)

SpecMeta == Init /\ [][MetaNext]_vars

\* ------------------------------------------- specification: music info
\* SetMusicInfo with every combination of null, empty and non-empty
\* arguments, any of its native calls failing.

MusicArgs == {NullW, W(""), W("A")}

MusicCalls ==
    {CInitialize, CShutdown}
    \cup {CSetMusicInfo(ti, ar, al) : ti \in MusicArgs, ar \in MusicArgs, al \in MusicArgs}

MusicStep(t) ==
    \/ \E c \in MusicCalls : Enter(t, c)
    \/ \E hr \in {"S_OK", "S_FALSE"} : SmtcInitialize(t, hr, NoFault)
    \/ SmtcShutdown(t, {})
    \/ \E fault \in MusicFaults : SmtcSetMusicInfo(t, fault)

MusicNext == \E t \in MetaCallers : MusicStep(t)

SpecMusic == Init /\ [][MusicNext]_vars

\* --------------------------------------------- specification: thumbnail
\* The three thumbnail operations with null and non-null paths and buffers
\* and sizes from 0 to the buffer's length, and UpdateDisplay.

ThumbBuffers == {NullData, Data(<<1, 2>>), Data(<<3>>)}

ThumbCalls ==
    {CInitialize, CShutdown, CClearThumbnail, CUpdateDisplay,
     CSetThumbnailFromFile(NullW), CSetThumbnailFromFile(W("f1")),
     CSetThumbnailFromFile(W("f2"))}
    \cup {CSetThumbnailFromMemory(d, n, m) :
              d \in ThumbBuffers, n \in 0..2, m \in {"image/png", "image/jpeg"}}

\* dataSize bytes are read from data: a size beyond the buffer is not a call
\* a caller can make.
ThumbCallValid(c) ==
    c.op = "SetThumbnailFromMemory" => (c.data.null \/ c.dataSize <= Len(c.data.bytes))

ThumbStep(t) ==
    \/ \E c \in ThumbCalls : ThumbCallValid(c) /\ Enter(t, c)
    \/ \E hr \in {"S_OK", "S_FALSE"} : SmtcInitialize(t, hr, NoFault)
    \/ SmtcShutdown(t, {})
    \/ \E fail \in BOOLEAN : SmtcSetThumbnailFromFile(t, fail)
    \/ \E fail \in BOOLEAN : SmtcSetThumbnailFromMemory(t, fail)
    \/ \E fail \in BOOLEAN : SmtcClearThumbnail(t, fail)
    \/ \E fail \in BOOLEAN : SmtcUpdateDisplay(t, fail)

ThumbNext == \E t \in MetaCallers : ThumbStep(t)

SpecThumb == Init /\ [][ThumbNext]_vars

\* ----------------------------------------------- specification: buttons
\* SetButtonEnabled and IsButtonEnabled on the ten button types and two
\* values outside the enumeration, with zero, one and other integers, in
\* MaxButtonSessions sessions.

ButtonTypes == (SMTC_BUTTON_PLAY..SMTC_BUTTON_CHANNEL_DOWN) \cup {-1, 10}

WiredButtons == {b \in ButtonTypes : ButtonProp(b) # ""}

EnabledArgs == {-1, 0, 1}

ButtonCalls ==
    {CInitialize, CShutdown}
    \cup {CSetButtonEnabled(b, e) : b \in ButtonTypes, e \in EnabledArgs}
    \cup {CIsButtonEnabled(b) : b \in ButtonTypes}

ButtonStep(t) ==
    \/ \E c \in ButtonCalls :
          /\ c.op = "Initialize" => (g_initialized \/ sessions < MaxButtonSessions)
          /\ Enter(t, c)
    \/ \E hr \in {"S_OK", "S_FALSE"} : SmtcInitialize(t, hr, NoFault)
    \/ SmtcShutdown(t, {})
    \/ \E fail \in BOOLEAN : SmtcSetButtonEnabled(t, fail)
    \/ \E fail \in BOOLEAN : SmtcIsButtonEnabled(t, fail)

ButtonNext == \E t \in MetaCallers : ButtonStep(t)

SpecButtons == Init /\ [][ButtonNext]_vars


\* ------------------------------------------------- claims on the display

\* The operations that set metadata.
MetadataSetters ==
    {"SetMediaType", "SetMusicInfo", "SetThumbnailFromFile", "SetThumbnailFromMemory",
     "ClearThumbnail"}

\* What the session of the display updater has staged, and what the shell
\* shows of it.
Staged == objs[g_displayUpdater].staged
Visible == objs[g_displayUpdater].visible

MusicFields == {"title", "artist", "album"}

\* C8: SetMusicInfo called while initialized leaves each staged field whose
\* argument is null as it was (also when a native call of it fails), and,
\* when it returns 0, has given each field whose argument is not null the
\* argument's value, the empty string included; media type and thumbnail are
\* not touched.
C8_NullKeepsField ==
    [][\A t \in Callers :
          (Runs(t, "SetMusicInfo") /\ ~NoUpdater)
              => /\ \A f \in MusicFields :
                        call[t][f].null => Staged'[f] = Staged[f]
                 /\ (outcome'[t] = "returned" /\ ret'[t] = 0)
                        => \A f \in MusicFields :
                               ~call[t][f].null => Staged'[f] = call[t][f].s
                 /\ Staged'.type = Staged.type
                 /\ Staged'.thumb = Staged.thumb]_vars

\* C8 witness: SetMusicInfo(null, "A", null) has returned 0 with the title
\* set before still staged and the album cleared before still empty.
C8_Witness ==
    \E t \in Callers :
        /\ g_initialized
        /\ Ended(t, "SetMusicInfo")
        /\ call[t] = CSetMusicInfo(NullW, W("A"), NullW)
        /\ outcome[t] = "returned"
        /\ ret[t] = 0
        /\ Staged.title = "A"
        /\ Staged.artist = "A"
        /\ Staged.album = ""

\* The calls that clear the thumbnail.
ClearsThumbnail(c) ==
    \/ c.op = "ClearThumbnail"
    \/ c.op = "SetThumbnailFromFile" /\ c.filePath.null
    \/ c.op = "SetThumbnailFromMemory" /\ (c.data.null \/ c.dataSize = 0)

ThumbnailOps == {"SetThumbnailFromFile", "SetThumbnailFromMemory", "ClearThumbnail"}

\* C9: while initialized and with no native call failing, every clearing
\* call (SetThumbnailFromFile(null), ClearThumbnail(),
\* SetThumbnailFromMemory(null, n, m), SetThumbnailFromMemory(d, 0, m))
\* returns 0 and leaves the same state, the one with no thumbnail staged;
\* a call with a path stages that file and no bytes, a call with a buffer and
\* a size above 0 stages the buffer's first size bytes and no path; and a
\* staged thumbnail is never both a file and a buffer.
C9_ThumbnailLastWriteWins ==
    /\ [][\A t \in Callers : \A op \in ThumbnailOps :
            (Runs(t, op) /\ ~NoUpdater /\ ~nativeFailed'[t])
                => /\ outcome'[t] = "returned"
                   /\ ret'[t] = 0
                   /\ ClearsThumbnail(call[t])
                        => objs' = [objs EXCEPT ![g_displayUpdater].staged.thumb =
                                        [kind |-> "none", path |-> "", bytes |-> <<>>]]
                   /\ (op = "SetThumbnailFromFile" /\ ~call[t].filePath.null)
                        => Staged'.thumb =
                               [kind |-> "file", path |-> call[t].filePath.s, bytes |-> <<>>]
                   /\ (op = "SetThumbnailFromMemory" /\ ~ClearsThumbnail(call[t]))
                        => Staged'.thumb =
                               [kind |-> "mem", path |-> "",
                                bytes |-> [i \in 1..call[t].dataSize |-> call[t].data.bytes[i]]]]_vars
    /\ [](\A i \in Ids :
            /\ objs[i].staged.thumb.kind = "none"
                  => (objs[i].staged.thumb.path = "" /\ objs[i].staged.thumb.bytes = <<>>)
            /\ objs[i].staged.thumb.kind = "file" => objs[i].staged.thumb.bytes = <<>>
            /\ objs[i].staged.thumb.kind = "mem" => objs[i].staged.thumb.path = "")

\* C9 witness: a file thumbnail was staged and committed, and
\* SetThumbnailFromMemory with a buffer and size 0 has returned 0 leaving no
\* thumbnail staged.
C9_Witness ==
    \E t \in Callers :
        /\ g_initialized
        /\ Ended(t, "SetThumbnailFromMemory")
        /\ ~call[t].data.null
        /\ call[t].dataSize = 0
        /\ outcome[t] = "returned"
        /\ ret[t] = 0
        /\ Visible.thumb.kind = "file"
        /\ Staged.thumb.kind = "none"

\* ------------------------------------------------- claims on the buttons

\* What IsButtonEnabled(b) answers when its native read does not fail.
Reads(b) == IsButtonEnabledResult(b, FALSE)

\* C10: for each wired button b and each integer e, while initialized: when
\* SetButtonEnabled(b, e) returns 0, IsButtonEnabled(b) answers 1 if e is not
\* zero and 0 if it is, and answers for every other button what it answered
\* before; the answer for b changes in no step other than a SetButtonEnabled
\* on b or a Shutdown; and IsButtonEnabled returns that answer.  (A step that
\* leaves the globals and the native objects alone changes no answer, Reads
\* being a function of those.)
C10_ButtonRoundTrip ==
    [][/\ \A t \in Callers :
            /\ (Runs(t, "SetButtonEnabled") /\ call[t].buttonType \in WiredButtons
                   /\ outcome'[t] = "returned" /\ ret'[t] = 0)
                  => /\ Reads(call[t].buttonType)' = (IF call[t].enabled # 0 THEN 1 ELSE 0)
                     /\ \A b2 \in WiredButtons \ {call[t].buttonType} :
                            Reads(b2)' = Reads(b2)
            /\ (Runs(t, "IsButtonEnabled") /\ call[t].buttonType \in WiredButtons
                   /\ ~nativeFailed'[t])
                  => /\ outcome'[t] = "returned"
                     /\ ret'[t] = Reads(call[t].buttonType)
                     /\ \A b \in WiredButtons : Reads(b)' = Reads(b)
       /\ (g_initialized /\ g_initialized' /\ ~UNCHANGED <<globalVars, nativeVars>>)
            => \A b \in WiredButtons :
                   (~\E t \in Callers :
                        Runs(t, "SetButtonEnabled") /\ call[t].buttonType = b)
                       => Reads(b)' = Reads(b)]_vars

\* C10 witness: SetButtonEnabled(STOP, -1) has returned 0; stop, disabled by
\* Initialize, reads enabled, and play, disabled by an earlier call, still
\* reads disabled.
C10_Witness ==
    \E t \in Callers :
        /\ g_initialized
        /\ Ended(t, "SetButtonEnabled")
        /\ call[t] = CSetButtonEnabled(SMTC_BUTTON_STOP, -1)
        /\ outcome[t] = "returned"
        /\ ret[t] = 0
        /\ Reads(SMTC_BUTTON_STOP) = 1
        /\ Reads(SMTC_BUTTON_PLAY) = 0

\* C11: while initialized, SetButtonEnabled on a button that is not wired
\* (record, channel-up, channel-down, a value outside the enumeration)
\* returns a negative code, leaves the last-error string "Unknown button
\* type" and changes no button's flag; IsButtonEnabled on such a button, or
\* on any button while uninitialized, returns 0 and leaves the last-error
\* string as it was.
C11_UnknownButtonPolicy ==
    [][\A t \in Callers :
          /\ (Runs(t, "SetButtonEnabled") /\ ~NoControls
                 /\ call[t].buttonType \notin WiredButtons)
                => /\ outcome'[t] = "returned"
                   /\ ret'[t] < 0
                   /\ g_lastError' = "Unknown button type"
                   /\ objs' = objs
          /\ (Runs(t, "IsButtonEnabled")
                 /\ (~g_initialized \/ call[t].buttonType \notin WiredButtons))
                => /\ outcome'[t] = "returned"
                   /\ ret'[t] = 0
                   /\ g_lastError' = g_lastError]_vars

\* ------------------------------------------- specification: press relay
\* One caller that initializes, shuts down (any teardown call failing) and
\* registers callbacks 1 and 2 or null, and the OS thread delivering presses
\* of every native button to the handler, in every interleaving.

CallbackValues == {0, 1, 2}

RelayCalls ==
    {CInitialize, CShutdown} \cup {CSetButtonPressedCallback(f) : f \in CallbackValues}

RelayStep(t) ==
    \/ \E c \in RelayCalls : Enter(t, c)
    \/ \E hr \in {"S_OK", "S_FALSE"} : SmtcInitialize(t, hr, NoFault)
    \/ \E fails \in SUBSET TeardownCalls : SmtcShutdown(t, fails)
    \/ SmtcSetButtonPressedCallback(t)

HandlerStep ==
    \/ \E o \in Ids, nb \in NativeButtons : Deliver(o, nb)
    \/ HandlerTest
    \/ \E f \in CallbackValues : HandlerInvoke(f)
    \/ HandlerReturn

RelayNext == (\E t \in MetaCallers : RelayStep(t)) \/ HandlerStep

SpecRelay == Init /\ [][RelayNext]_vars

\* The public value of each native button the bridge relays.
RelayedAs ==
    [Play |-> SMTC_BUTTON_PLAY, Pause |-> SMTC_BUTTON_PAUSE, Stop |-> SMTC_BUTTON_STOP,
     Next |-> SMTC_BUTTON_NEXT, Previous |-> SMTC_BUTTON_PREVIOUS,
     FastForward |-> SMTC_BUTTON_FAST_FORWARD, Rewind |-> SMTC_BUTTON_REWIND]

\* The handler makes its test of the slot, makes its call, returns.
Tests == hpc = "delivered" /\ hpc' # "delivered"
Invokes == hpc = "tested" /\ hpc' = "calling"

\* C12: while initialized, a press of play, pause, stop, next, previous,
\* fast-forward or rewind delivered while the callback slot is not null
\* invokes the registered callback exactly once, with the public value of
\* that button; a press of any other native button, and any press delivered
\* while the slot is null, ends with no invocation and the last-error string
\* as it was; and no callback is invoked in any other step.
C12_ButtonRelay ==
    [][/\ (Tests /\ g_initialized)
            => IF g_buttonCallback # 0 /\ hEvent.button \in DOMAIN RelayedAs
                 THEN hpc' = "tested" /\ hCalls' = 0
                 ELSE /\ hpc' = "idle"
                      /\ hCalls' = 0
                      /\ relayed' = relayed
                      /\ g_lastError' = g_lastError
       /\ (hpc = "tested" /\ g_buttonCallback # 0 /\ hpc' # "tested") => Invokes
       /\ Invokes
            => /\ hCalls = 0 /\ hCalls' = 1
               /\ hEvent.button \in DOMAIN RelayedAs
               /\ relayed'.buttonType = RelayedAs[hEvent.button]
               /\ relayed'.callback # 0
               /\ relayed'.callback \in {hTested, g_buttonCallback}
               /\ g_lastError' = g_lastError
       /\ (hpc = "calling" /\ hpc' # "calling") => (hpc' = "idle" /\ hCalls' = 1)
       /\ (relayed' # relayed \/ hCalls' > hCalls) => Invokes]_vars

\* C12 witness: callback 1 was replaced by callback 2, and a press of Next
\* has been relayed once, to callback 2 with SMTC_BUTTON_NEXT, the handler
\* having returned.
C12_Witness ==
    /\ g_initialized
    /\ g_buttonCallback = 2
    /\ hpc = "idle"
    /\ hEvent.button = "Next"
    /\ hCalls = 1
    /\ relayed = [callback |-> 2, buttonType |-> 6]

\* ------------------------------------------- specification: error string
\* One caller: sessions with no failure in setup or teardown, operations
\* that fail (not initialized, unknown button, a native call throwing) or
\* succeed, SmtcGetLastError and SmtcClearError.

ErrorCalls ==
    {CInitialize, CShutdown, CIsInitialized, CGetLastError, CClearError,
     CUpdateDisplay, CSetPlaybackStatus(SMTC_PLAYBACK_PAUSED), CGetPlaybackStatus,
     CSetButtonEnabled(SMTC_BUTTON_CHANNEL_UP, 1), CSetButtonEnabled(SMTC_BUTTON_STOP, 1),
     CIsButtonEnabled(SMTC_BUTTON_STOP), CSetButtonPressedCallback(1)}

ErrorStep(t) ==
    \/ \E c \in ErrorCalls : Enter(t, c)
    \/ \E hr \in {"S_OK", "S_FALSE"} : SmtcInitialize(t, hr, NoFault)
    \/ SmtcShutdown(t, {})
    \/ SmtcIsInitialized(t)
    \/ SmtcGetLastError(t)
    \/ SmtcClearError(t)
    \/ \E fail \in BOOLEAN : SmtcUpdateDisplay(t, fail)
    \/ \E fail \in BOOLEAN : SmtcSetPlaybackStatus(t, fail)
    \/ \E fail \in BOOLEAN : SmtcGetPlaybackStatus(t, fail)
    \/ \E fail \in BOOLEAN : SmtcSetButtonEnabled(t, fail)
    \/ \E fail \in BOOLEAN : SmtcIsButtonEnabled(t, fail)
    \/ SmtcSetButtonPressedCallback(t)

ErrorNext == \E t \in MetaCallers : ErrorStep(t)

SpecErrors == Init /\ [][ErrorNext]_vars

\* Thread t's operation runs its body in this step and fails: a guarded
\* operation on an uninitialized module, SetButtonEnabled on a button that
\* is not wired, or a setter whose native call throws.
FailsNow(t) ==
    /\ pc[t] = "in" /\ pc'[t] # "in"
    /\ call[t].op \in GuardedOps
    /\ \/ ~g_initialized
       \/ nativeFailed'[t]
       \/ call[t].op = "SetButtonEnabled" /\ call[t].buttonType \notin WiredButtons

\* The message of that failure.
MessageOf(t) ==
    IF ~g_initialized THEN "Not initialized"
    ELSE IF call[t].op = "SetButtonEnabled" /\ call[t].buttonType \notin WiredButtons
      THEN "Unknown button type"
    ELSE "WinRT error: E"

\* C13: GetLastError returns the last-error string and changes no state, so
\* a second GetLastError right after it returns the same string; and an
\* operation that fails leaves its own message as the last-error string,
\* whatever the string was before, so that the next GetLastError returns it.
C13_GetLastError ==
    [][\A t \in Callers :
          /\ Runs(t, "GetLastError")
                => /\ outcome'[t] = "returned"
                   /\ retStr'[t] = g_lastError
                   /\ UNCHANGED <<globalVars, nativeVars>>
          /\ FailsNow(t) => g_lastError' = MessageOf(t)]_vars

\* Thread t's operation returns in this step, with 0 if it returns a code.
Succeeds(t) ==
    /\ pc[t] = "in" /\ pc'[t] # "in"
    /\ outcome'[t] = "returned"
    /\ call[t].op \in GuardedOps \cup {"Initialize"} => ret'[t] = 0

\* C14 as claimed: a successful call of any operation other than ClearError
\* and Initialize leaves the last-error string as it was, and every
\* Initialize that returns 0 leaves it empty.
C14_ErrorClearedOnlyBy ==
    [][\A t \in Callers :
          Succeeds(t)
              => /\ call[t].op \notin {"ClearError", "Initialize"}
                        => g_lastError' = g_lastError
                 /\ call[t].op = "Initialize" => g_lastError' = ""]_vars

\* C14 amended: a successful call of any operation other than ClearError and
\* Initialize leaves the last-error string as it was; an Initialize that
\* runs the setup and returns 0 leaves it empty, and so does ClearError; an
\* Initialize on an initialized module returns 0 and leaves the string as
\* it was; and a string that is not empty becomes empty in no other step.
C14_ErrorClearing ==
    [][/\ \A t \in Callers :
            Succeeds(t)
                => /\ call[t].op \notin {"ClearError", "Initialize"}
                          => g_lastError' = g_lastError
                   /\ (call[t].op = "Initialize" /\ ~g_initialized) => g_lastError' = ""
                   /\ (call[t].op = "Initialize" /\ g_initialized)
                          => g_lastError' = g_lastError
                   /\ call[t].op = "ClearError" => g_lastError' = ""
       /\ (g_lastError # "" /\ g_lastError' = "")
            => \E t \in Callers :
                   \/ Runs(t, "ClearError")
                   \/ Runs(t, "Initialize") /\ ~g_initialized]_vars

\* C14 witness: SetPlaybackStatus has returned 0 in a session whose
\* last-error string, left by an earlier SetButtonEnabled, is still there.
C14_Witness ==
    \E t \in Callers :
        /\ g_initialized
        /\ Ended(t, "SetPlaybackStatus")
        /\ outcome[t] = "returned"
        /\ ret[t] = 0
        /\ g_lastError = "Unknown button type"

\* --------------------------------------- specification: playback status
\* One caller: sessions with no failure in setup or teardown,
\* SetPlaybackStatus with the five status values and two values outside the
\* enumeration, GetPlaybackStatus, their native calls failing or not.

StatusArgs == (SMTC_PLAYBACK_CLOSED..SMTC_PLAYBACK_CHANGING) \cup {-1, 5}

StatusCalls ==
    {CInitialize, CShutdown, CGetPlaybackStatus}
    \cup {CSetPlaybackStatus(st) : st \in StatusArgs}

StatusStep(t) ==
    \/ \E c \in StatusCalls : Enter(t, c)
    \/ \E hr \in {"S_OK", "S_FALSE"} : SmtcInitialize(t, hr, NoFault)
    \/ SmtcShutdown(t, {})
    \/ \E fail \in BOOLEAN : SmtcSetPlaybackStatus(t, fail)
    \/ \E fail \in BOOLEAN : SmtcGetPlaybackStatus(t, fail)

StatusNext == \E t \in MetaCallers : StatusStep(t)

SpecStatus == Init /\ [][StatusNext]_vars

\* What GetPlaybackStatus answers when its native read does not fail.
StatusReads ==
    IF NoControls THEN SMTC_PLAYBACK_CLOSED ELSE StatusFromNative(objs[g_smtc].status)

\* C15: while initialized, when SetPlaybackStatus(s) returns 0 for one of the
\* five status values s, GetPlaybackStatus answers s, and its answer changes
\* in no step of the session other than a SetPlaybackStatus; GetPlaybackStatus
\* returns that answer and changes nothing; and while the module is
\* uninitialized GetPlaybackStatus returns Closed and leaves the last-error
\* string as it was.
C15_PlaybackStatus ==
    [][\A t \in Callers :
          /\ (Runs(t, "SetPlaybackStatus") /\ outcome'[t] = "returned" /\ ret'[t] = 0
                 /\ call[t].status \in 0..4)
                => StatusReads' = call[t].status
          /\ (g_initialized /\ g_initialized'
                 /\ ~\E u \in Callers : Runs(u, "SetPlaybackStatus"))
                => StatusReads' = StatusReads
          /\ (Runs(t, "GetPlaybackStatus") /\ ~nativeFailed'[t])
                => /\ outcome'[t] = "returned"
                   /\ ret'[t] = StatusReads
                   /\ UNCHANGED <<globalVars, nativeVars>>
          /\ (Runs(t, "GetPlaybackStatus") /\ ~g_initialized)
                => /\ outcome'[t] = "returned"
                   /\ ret'[t] = 0
                   /\ g_lastError' = g_lastError]_vars

\* C15 witness: in the second session, GetPlaybackStatus has returned
\* Changing, the status set in that session.
C15_Witness ==
    \E t \in Callers :
        /\ sessions = 2
        /\ g_initialized
        /\ Ended(t, "GetPlaybackStatus")
        /\ outcome[t] = "returned"
        /\ ret[t] = 4
        /\ objs[g_smtc].status = "Changing"

\* --------------------------------------------- specification: timeline
\* One caller: sessions with no failure in setup or teardown, and
\* SetTimelineProperties with start, end and position drawn from 64-bit
\* values: small ones in and out of order, negative ones, the extremes of
\* long long, and the two values either side of the largest number of
\* milliseconds whose tick count fits 64 bits.

INT64_MAX == <<65535, 65535, 65535, 32767>>
INT64_MIN == <<0, 0, 0, 32768>>
\* 922337203685477 = INT64_MAX \div 10000, and its successor
MaxWholeMs == <<34917, 23907, 18140, 3>>
MaxWholeMsPlus1 == <<34918, 23907, 18140, 3>>

TimeArgs == {I64(0), I64(10000), MaxWholeMs, MaxWholeMsPlus1, INT64_MIN}

PositionArgs == {I64(5000), I64(-1), INT64_MAX}

TimelineCalls ==
    {CInitialize, CShutdown}
    \cup {CSetTimelineProperties(a, b, c) : a \in TimeArgs, b \in TimeArgs, c \in PositionArgs}

TimelineStep(t) ==
    \/ \E c \in TimelineCalls : Enter(t, c)
    \/ \E hr \in {"S_OK", "S_FALSE"} : SmtcInitialize(t, hr, NoFault)
    \/ SmtcShutdown(t, {})
    \/ \E fail \in BOOLEAN : SmtcSetTimelineProperties(t, fail)

TimelineNext == \E t \in MetaCallers : TimelineStep(t)

SpecTimeline == Init /\ [][TimelineNext]_vars

\* A 64-bit number written with two more limbs, its sign kept.
Widen(x) ==
    x \o (IF x[LimbCount] >= Limb \div 2 THEN <<Limb - 1, Limb - 1>> ELSE <<0, 0>>)

\* The TimeSpan ticks is the time ms milliseconds: ticks = ms * 10000 as
\* integers (no bit of the product is lost).
IsTimeOf(ticks, ms) == Widen(ticks) = MulLimbs(Widen(ms), 10000, 1, 0)

\* C16: for all 64-bit start, end and position, SetTimelineProperties called
\* while initialized (its native calls not failing) returns 0 and passes to
\* the OS a timeline whose start is the time start ms, end the time end ms,
\* position the time position ms, minimum seek time start and maximum seek
\* time end.
C16_TimelineExact ==
    [][\A t \in Callers :
          (Runs(t, "SetTimelineProperties") /\ ~NoControls /\ ~nativeFailed'[t])
              => /\ outcome'[t] = "returned"
                 /\ ret'[t] = 0
                 /\ objs'[g_smtc].timeline.set
                 /\ IsTimeOf(objs'[g_smtc].timeline.start, call[t].startTimeMs)
                 /\ IsTimeOf(objs'[g_smtc].timeline.end, call[t].endTimeMs)
                 /\ IsTimeOf(objs'[g_smtc].timeline.position, call[t].positionMs)
                 /\ IsTimeOf(objs'[g_smtc].timeline.minSeek, call[t].startTimeMs)
                 /\ IsTimeOf(objs'[g_smtc].timeline.maxSeek, call[t].endTimeMs)]_vars

\* The same for arguments whose tick count fits 64 bits, start above end and
\* position outside them included.
FitsTicks(ms) == IsTimeOf(ToTimeSpan(ms), ms)

C16_TimelineExactWhenFits ==
    [][\A t \in Callers :
          (Runs(t, "SetTimelineProperties") /\ ~NoControls /\ ~nativeFailed'[t]
             /\ FitsTicks(call[t].startTimeMs) /\ FitsTicks(call[t].endTimeMs)
             /\ FitsTicks(call[t].positionMs))
              => /\ outcome'[t] = "returned"
                 /\ ret'[t] = 0
                 /\ IsTimeOf(objs'[g_smtc].timeline.start, call[t].startTimeMs)
                 /\ IsTimeOf(objs'[g_smtc].timeline.end, call[t].endTimeMs)
                 /\ IsTimeOf(objs'[g_smtc].timeline.position, call[t].positionMs)
                 /\ IsTimeOf(objs'[g_smtc].timeline.minSeek, call[t].startTimeMs)
                 /\ IsTimeOf(objs'[g_smtc].timeline.maxSeek, call[t].endTimeMs)]_vars

\* ------------------------------------------------ claims on concurrency

\* The handler reads g_buttonCallback in this step.
HandlerReads == Tests \/ (hpc = "tested" /\ hpc' # "tested")

\* C17: global state is read and written only by a thread that holds
\* g_mutex: a thread inside a public operation is the owner of the mutex, so
\* at most one thread is inside one, and the button-press handler holds the
\* mutex when it reads the callback slot.
C17_LockDiscipline ==
    [][/\ \A t \in Callers : pc'[t] \in {"in", "blocked"} => g_mutex' = t
       /\ HandlerReads => g_mutex = OsThread]_vars

\* --------------------------------- specification: callback re-entering
\* One caller that initializes, shuts down, registers a callback and sets
\* the playback status, and the OS thread delivering presses to the handler;
\* the callback may call SetPlaybackStatus from the OS thread.

ReentryCalls ==
    {CInitialize, CShutdown, CSetButtonPressedCallback(1),
     CSetPlaybackStatus(SMTC_PLAYBACK_PLAYING)}

ReentryStep(t) ==
    \/ \E c \in ReentryCalls : Enter(t, c)
    \/ \E hr \in {"S_OK", "S_FALSE"} : SmtcInitialize(t, hr, NoFault)
    \/ SmtcShutdown(t, {})
    \/ SmtcSetButtonPressedCallback(t)

ReentryHandlerStep ==
    \/ \E o \in Ids, nb \in {"Play", "Record"} : Deliver(o, nb)
    \/ HandlerTest
    \/ \E f \in CallbackValues : HandlerInvoke(f)
    \/ CallbackEnter(CSetPlaybackStatus(SMTC_PLAYBACK_PAUSED))
    \/ HandlerReturn

ReentryNext ==
    \/ \E t \in MetaCallers : ReentryStep(t)
    \/ \E t \in MetaCallers \cup {OsThread}, fail \in BOOLEAN : SmtcSetPlaybackStatus(t, fail)
    \/ ReentryHandlerStep

SpecReentry == Init /\ [][ReentryNext]_vars

\* C18: the handler never waits for g_mutex: whoever owns the mutex, a
\* delivered press can be tested, a tested one can be relayed and a returned
\* callback lets the handler return; and an operation the callback calls
\* from the delivery thread does not deadlock: the delivery thread is never
\* left waiting for a mutex it owns, nor for one whose owner waits forever.
C18_HandlerNeverWaits ==
    /\ hpc = "delivered" => ENABLED HandlerTest
    /\ hpc = "tested" => ENABLED (\E f \in CallbackValues : HandlerInvoke(f))
    /\ (hpc = "calling" /\ pc[OsThread] = "idle") => ENABLED HandlerReturn
    /\ hpc = "calling"
          => /\ pc[OsThread] # "blocked"
             /\ g_mutex \in Callers \ {OsThread} => pc[g_mutex] # "blocked"

\* ---------------------------------------- specification: sessions
\* One caller: Initialize with every answer of CoInitializeEx and every
\* native failure of the setup, Shutdown with every subset of failing
\* teardown calls, and between them IsInitialized, a callback registration
\* and a SetButtonEnabled call that changes what Initialize had set.

SessionCalls ==
    {CInitialize, CShutdown, CIsInitialized, CSetButtonPressedCallback(1),
     CSetButtonEnabled(SMTC_BUTTON_STOP, 1)}

SessionStep(t) ==
    \/ \E c \in SessionCalls : Enter(t, c)
    \/ \E hr \in Hresults, fault \in InitFaults : SmtcInitialize(t, hr, fault)
    \/ \E fails \in SUBSET TeardownCalls : SmtcShutdown(t, fails)
    \/ SmtcIsInitialized(t)
    \/ SmtcSetButtonPressedCallback(t)
    \/ \E fail \in BOOLEAN : SmtcSetButtonEnabled(t, fail)

SessionNext == \E t \in LifeCallers : SessionStep(t)

SpecSessions == Init /\ [][SessionNext]_vars

\* C19: on one thread, when a Shutdown has returned every apartment
\* initialization the module made on it (each CoInitializeEx that
\* succeeded) has been matched by one CoUninitialize, and the module never
\* uninitializes more often than it initialized.
C19_ApartmentBalance ==
    [][\A t \in Callers :
          /\ comInits'[t] >= 0
          /\ Runs(t, "Shutdown") => comInits'[t] = 0]_vars

\* C20: an Initialize that runs the setup and returns 0 leaves the flag
\* true and play, pause, next and previous enabled and stop disabled, so
\* that IsButtonEnabled answers 1, 1, 1, 1 and 0 for them, whatever the
\* previous session had set; and however far a setup gets, the controls of
\* the object it constructed are enabled only if the button-press handler
\* is registered on them, and the flag is true only if both are.
C20_InitialButtons ==
    [][\A t \in Callers :
          (Runs(t, "Initialize") /\ ~g_initialized)
              => /\ (outcome'[t] = "returned" /\ ret'[t] = 0)
                        => /\ g_initialized'
                           /\ Reads(SMTC_BUTTON_PLAY)' = 1
                           /\ Reads(SMTC_BUTTON_PAUSE)' = 1
                           /\ Reads(SMTC_BUTTON_NEXT)' = 1
                           /\ Reads(SMTC_BUTTON_PREVIOUS)' = 1
                           /\ Reads(SMTC_BUTTON_STOP)' = 0
                 /\ objs'[setups'].isEnabled => objs'[setups'].sinks # {}
                 /\ g_initialized'
                        => /\ g_smtc' = setups'
                           /\ objs'[setups'].isEnabled
                           /\ objs'[setups'].sinks = {g_buttonPressedToken'}]_vars

\* C20 witness: the second session has just been set up: Initialize has
\* returned 0 after its thirteen native calls, play reads enabled and stop
\* disabled.
C20_Witness ==
    \E t \in Callers :
        /\ sessions = 2
        /\ g_initialized
        /\ Ended(t, "Initialize")
        /\ outcome[t] = "returned"
        /\ ret[t] = 0
        /\ nativeCalls[t] = 13
        /\ Reads(SMTC_BUTTON_PLAY) = 1
        /\ Reads(SMTC_BUTTON_STOP) = 0

\* ------------------------------------- specification: setups that fail
\* One caller: Initialize with every answer of CoInitializeEx and every
\* native failure of the setup, IsInitialized and a callback registration;
\* and the OS thread delivering presses of Play to the handler.  There is no
\* Shutdown: whatever a failing Initialize leaves stays.

FailedSetupCalls == {CInitialize, CIsInitialized, CSetButtonPressedCallback(1)}

FailedSetupStep(t) ==
    \/ \E c \in FailedSetupCalls : Enter(t, c)
    \/ \E hr \in Hresults, fault \in InitFaults : SmtcInitialize(t, hr, fault)
    \/ SmtcIsInitialized(t)
    \/ SmtcSetButtonPressedCallback(t)

FailedSetupHandlerStep ==
    \/ \E o \in Ids : Deliver(o, "Play")
    \/ HandlerTest
    \/ \E f \in CallbackValues : HandlerInvoke(f)
    \/ HandlerReturn

FailedSetupNext == (\E t \in LifeCallers : FailedSetupStep(t)) \/ FailedSetupHandlerStep

SpecFailedSetup == Init /\ [][FailedSetupNext]_vars

\* Thread t's Initialize returns a negative code in this step.
InitializeFails(t) ==
    Runs(t, "Initialize") /\ outcome'[t] = "returned" /\ ret'[t] < 0

\* C21: when Initialize returns a negative code the module is as it was
\* before the call apart from the last-error string: the flag is false, the
\* session, controls and updater handles are null, no native object has a
\* button-press sink registered, the apartment-ownership flag and the
\* callback slots are as they were; and the handler invokes a callback only
\* while the module is initialized.
C21_FailedInitializeAtomic ==
    [][/\ \A t \in Callers :
            InitializeFails(t)
                => /\ ~g_initialized'
                   /\ g_mediaPlayer' = NullHandle
                   /\ g_smtc' = NullHandle
                   /\ g_displayUpdater' = NullHandle
                   /\ \A i \in Ids : objs'[i].sinks = {}
                   /\ g_comInitialized' = g_comInitialized
                   /\ UNCHANGED callbackVars
       /\ Invokes => g_initialized]_vars

\* The handler leaves its second read of the slot in this step: it calls
\* through the value read.
CallsThrough == hpc = "tested" /\ hpc' # "tested"

\* C22: the handler never calls through a null function pointer: in every
\* interleaving of a press with SetButtonPressedCallback(null) or Shutdown,
\* the pointer it calls through is the value it tested, which is not null,
\* and not a value read again after the slot was written.
C22_NoNullCall ==
    [][/\ hpc' # "crashed"
       /\ CallsThrough
            => /\ Invokes
               /\ hTested # 0
               /\ relayed'.callback = hTested]_vars

\* The session whose controls raised the press being handled is the one
\* that is initialized now: no Shutdown of it has returned.
PressSessionUp == g_initialized /\ g_smtc = hEvent.sender

\* C23: once Shutdown has returned no callback registered before it is
\* invoked: the handler invokes a callback only for a press of the session
\* that is still initialized, so a press in progress when Shutdown runs is
\* relayed before Shutdown returns or not at all; Shutdown leaves the
\* callback slot null and Initialize leaves the slot as it is, so that after
\* a later Initialize nothing is relayed until SetButtonPressedCallback is
\* called again.
C23_NoCallbackAfterShutdown ==
    [][/\ Invokes => PressSessionUp
       /\ \A t \in Callers :
            /\ (Runs(t, "Shutdown") /\ g_initialized) => g_buttonCallback' = 0
            /\ Runs(t, "Initialize") => g_buttonCallback' = g_buttonCallback
       /\ (Tests /\ g_buttonCallback = 0) => hpc' = "idle"]_vars

====
